---- MODULE Spec2Model ----
(***************************************************************************)
(* A model of jira_board_to_sql.py: the one-shot job that reads a Jira     *)
(* Agile board's column configuration and issue list over HTTP and merges  *)
(* both into two SQL Server tables (dbo.JiraBoardColumns and               *)
(* dbo.JiraIssuesBoard).                                                   *)
(*                                                                         *)
(* Representation of Python values:                                        *)
(*   - an environment value is a sequence of one-character strings;        *)
(*     PyNone stands for None (os.getenv of an unset variable);            *)
(*   - a JSON scalar that the code passes through str() is a record        *)
(*     [t, i, s] (an int, a string or null);                               *)
(*   - a text attribute is a TLA+ string, NULL standing for None/SQL NULL; *)
(*   - a timestamp string is a sequence of lexical tokens;                 *)
(*   - a table is the sequence of its rows (a heap, no constraint).        *)
(***************************************************************************)
EXTENDS Integers, Sequences, FiniteSets, TLC

VARIABLES
    env,               \* the process environment, name -> value or PyNone
                       \*   (and, under "PYTHON", the interpreter's version)
    faults,            \* whether HTTP requests and SQL statements may fail
    boardCfg,          \* upstream: the board configuration's column list
    srcIssues,         \* upstream: the issues on the board, in order
    srcMode,           \* upstream: how the issue endpoint serves pages
    pc,                \* position in main()
    err,               \* the exception that ended the run, or NoErr
    cols,              \* main's cols
    status_to_column,  \* main's status_to_column
    issues,            \* get_board_issues' issues, then main's
    start_at,          \* get_board_issues' start_at
    idx,               \* position of the upsert loops in their list
    tx,                \* the tables as seen inside the open transaction
    db,                \* the committed tables
    httpLog,           \* every HTTP request sent, with what came back
    nConnect,          \* pyodbc.connect calls of this run
    nExec,             \* cur.execute calls of this run
    nCommit,           \* conn.commit calls of this run
    runs,              \* runs of main started so far
    changed,           \* upstream data changed since the previous run
    dbStart            \* committed tables when this run started

vars == <<env, faults, boardCfg, srcIssues, srcMode, pc, err, cols,
          status_to_column, issues, start_at, idx, tx, db, httpLog,
          nConnect, nExec, nCommit, runs, changed, dbStart>>

upstream == <<env, faults, boardCfg, srcIssues, srcMode>>
history  == <<runs, changed, dbStart>>

----------------------------------------------------------------------------
(* Bounds of the model.                                                    *)

MaxIssues == 120      \* issues on a board served by a consistent source
AdvIssues == 2        \* issues on a board served by an inconsistent source
AdvMaxTotal == 3      \* largest total an inconsistent source reports
SyncIssues == 2       \* issues on the board in the full-sync model
MaxRuns == 2          \* consecutive runs of main

----------------------------------------------------------------------------
(* Python values.                                                          *)

PyNone == <<"<None>">>
NULL == "<NULL>"

Min(a, b) == IF a <= b THEN a ELSE b

\* `not value` for a str | None
Falsy(value) == value = PyNone \/ value = <<>>

\* str.rstrip("/")
RECURSIVE RStripSlash(_)
RStripSlash(s) ==
    IF s # <<>> /\ s[Len(s)] = "/" THEN RStripSlash(SubSeq(s, 1, Len(s) - 1))
    ELSE s

LowerChar(c) ==
    CASE c = "S" -> "s" [] c = "Q" -> "q" [] c = "L" -> "l" [] OTHER -> c

\* str.lower()
Lower(s) == [k \in 1..Len(s) |-> LowerChar(s[k])]

\* os.getenv(name) and os.getenv(name, default)
getenv(name) == env[name]
getenv_default(name, default) ==
    IF env[name] = PyNone THEN default ELSE env[name]

----------------------------------------------------------------------------
(* Module-level configuration, read once at import.                        *)

JIRA_BASE_URL == RStripSlash(getenv_default("JIRA_BASE_URL", <<>>))
JIRA_EMAIL == getenv("JIRA_EMAIL")
JIRA_API_TOKEN == getenv("JIRA_API_TOKEN")
BOARD_ID == 2
SQL_SERVER == getenv("SQL_SERVER")
SQL_DATABASE == getenv_default("SQL_DATABASE", <<"J">>)
SQL_AUTH == Lower(getenv_default("SQL_AUTH", <<"w">>))
SQL_USERNAME == getenv("SQL_USERNAME")
SQL_PASSWORD == getenv("SQL_PASSWORD")

EnvNames == {"JIRA_BASE_URL", "JIRA_EMAIL", "JIRA_API_TOKEN", "SQL_SERVER",
             "SQL_DATABASE", "SQL_AUTH", "SQL_USERNAME", "SQL_PASSWORD",
             "PYTHON"}

ValidEnv ==
    [n \in EnvNames |->
        CASE n = "JIRA_BASE_URL" -> <<"h", "/">>
          [] n = "SQL_DATABASE" -> PyNone
          [] n = "SQL_AUTH" -> PyNone
          [] n = "SQL_USERNAME" -> PyNone
          [] n = "SQL_PASSWORD" -> PyNone
          [] n = "PYTHON" -> <<"3", "11">>
          [] OTHER -> <<"v">>]

----------------------------------------------------------------------------
(* Errors.                                                                 *)

NoErr == [kind |-> "none", name |-> ""]
HttpErr == [kind |-> "http", name |-> ""]
ConnectErr == [kind |-> "db", name |-> "connect"]
ExecuteErr == [kind |-> "db", name |-> "execute"]
CommitErr == [kind |-> "db", name |-> "commit"]

\* require_env: the ValueError it raises, or NoErr
require_env(name, value) ==
    IF Falsy(value) THEN [kind |-> "config", name |-> name] ELSE NoErr

\* the first exception raised by a sequence of calls
RECURSIVE FirstErr(_)
FirstErr(es) ==
    IF es = <<>> THEN NoErr
    ELSE IF es[1] # NoErr THEN es[1] ELSE FirstErr(Tail(es))

\* jira_get's three require_env calls, made before the request is sent
JiraGetConfigErr ==
    FirstErr(<<require_env("JIRA_BASE_URL", JIRA_BASE_URL),
               require_env("JIRA_EMAIL", JIRA_EMAIL),
               require_env("JIRA_API_TOKEN", JIRA_API_TOKEN)>>)

----------------------------------------------------------------------------
(* The run's local state before main has assigned anything.                *)

EmptyTables == [columns |-> <<>>, issues |-> <<>>]

RunReset ==
    /\ err = NoErr
    /\ cols = <<>>
    /\ status_to_column = <<>>
    /\ issues = <<>>
    /\ start_at = 0
    /\ idx = 0
    /\ tx = EmptyTables
    /\ httpLog = <<>>
    /\ nConnect = 0
    /\ nExec = 0
    /\ nCommit = 0

\* an exception propagates out of main: the with-block, if entered, is left
\* without a commit and the transaction's writes are dropped
Raise(e) ==
    /\ pc' = "failed"
    /\ err' = e
    /\ tx' = EmptyTables
    /\ UNCHANGED <<db, nCommit>>

----------------------------------------------------------------------------
(* get_board_issues.                                                       *)

max_results == 50

Issue(k) ==
    [key |-> k, summary |-> "s", status |-> [t |-> "int", i |-> 1, s |-> ""],
     statusName |-> "Open", assignee |-> NULL, duedate |-> NULL,
     created |-> <<>>, updated |-> <<>>]

\* the HTTP responses the issue endpoint may give to a request at offset
\* `start`: a consistent source serves the board's issues from the requested
\* offset, at most srcMode.cap a page, and reports their number as the total;
\* an inconsistent one serves any slice and reports any total, or none
OkResponses(start) ==
    LET N == Len(srcIssues) IN
    IF srcMode.kind = "consistent"
    THEN {[ok |-> TRUE,
           issues |-> SubSeq(srcIssues, start + 1,
                             Min(N, start + Min(max_results, srcMode.cap))),
           hasTotal |-> TRUE, total |-> N]}
    ELSE UNION {UNION {{[ok |-> TRUE, issues |-> SubSeq(srcIssues, a, b),
                         hasTotal |-> h, total |-> IF h THEN t ELSE 0]
                        : t \in IF h THEN 0..AdvMaxTotal ELSE {0}}
                       : h \in BOOLEAN}
                : a \in 1..(N + 1), b \in 0..N}

FailResponse == [ok |-> FALSE, issues |-> <<>>, hasTotal |-> FALSE, total |-> 0]

IssueResponses(start) ==
    OkResponses(start) \cup (IF faults THEN {FailResponse} ELSE {})

\* data.get("total", 0)
TotalOf(data) == IF data.hasTotal THEN data.total ELSE 0

\* start_at += len(chunk)
NextStartAtNoAdvance(start, chunk) == start
NextStartAt(start, chunk) == start + Len(chunk)

\* if start_at >= data.get("total", 0): break
FetchStopsStrict(start, data) == start > TotalOf(data)
FetchStops(start, data) == start >= TotalOf(data)

IssueRequest(data) ==
    [path |-> "issue", startAt |-> start_at, maxResults |-> max_results,
     ok |-> data.ok, n |-> Len(data.issues), total |-> TotalOf(data)]

\* one iteration of the while loop: a request, then the two break tests
FetchPage ==
    /\ pc = "fetchIssues"
    /\ \E data \in IssueResponses(start_at) :
        IF JiraGetConfigErr # NoErr
        THEN /\ Raise(JiraGetConfigErr)
             /\ UNCHANGED <<issues, start_at, httpLog>>
        ELSE /\ httpLog' = Append(httpLog, IssueRequest(data))
             /\ IF ~data.ok
                THEN /\ Raise(HttpErr)
                     /\ UNCHANGED <<issues, start_at>>
                ELSE LET chunk == data.issues IN
                     IF chunk = <<>>
                     THEN /\ pc' = "connect"
                          /\ UNCHANGED <<issues, start_at, err, tx, db, nCommit>>
                     ELSE /\ issues' = issues \o chunk
                          /\ start_at' = NextStartAt(start_at, chunk)
                          /\ pc' = IF FetchStops(start_at', data)
                                   THEN "connect" ELSE "fetchIssues"
                          /\ UNCHANGED <<err, tx, db, nCommit>>
    /\ UNCHANGED <<upstream, history, cols, status_to_column, idx,
                   nConnect, nExec>>

----------------------------------------------------------------------------
(* get_board_columns and the status -> column dict.                        *)

Digit(d) ==
    CASE d = 0 -> "0" [] d = 1 -> "1" [] d = 2 -> "2" [] d = 3 -> "3"
      [] d = 4 -> "4" [] d = 5 -> "5" [] d = 6 -> "6" [] d = 7 -> "7"
      [] d = 8 -> "8" [] OTHER -> "9"

RECURSIVE IntToStr(_)
IntToStr(n) ==
    IF n < 10 THEN <<Digit(n)>> ELSE IntToStr(n \div 10) \o <<Digit(n % 10)>>

\* JSON scalars as the code meets them
JInt(n) == [t |-> "int", i |-> n, s |-> <<>>]
JStr(cs) == [t |-> "str", i |-> 0, s |-> cs]
JNull == [t |-> "none", i |-> 0, s |-> <<>>]

\* str(x)
Str(x) ==
    CASE x.t = "int" -> IntToStr(x.i)
      [] x.t = "str" -> x.s
      [] OTHER -> <<"N", "o", "n", "e">>

\* the inner loop over col.get("statuses", [])
StatusRowsFirstOnly(col) ==
    [k \in 1..Min(1, Len(col.statuses)) |->
        [BoardId |-> BOARD_ID, ColumnName |-> col.name,
         StatusId |-> Str(col.statuses[k].id),
         StatusName |-> col.statuses[k].name]]
StatusRows(col) ==
    [k \in 1..Len(col.statuses) |->
        [BoardId |-> BOARD_ID, ColumnName |-> col.name,
         StatusId |-> Str(col.statuses[k].id),
         StatusName |-> col.statuses[k].name]]

\* the outer loop over the configuration's columns
RECURSIVE FlattenColumns(_)
FlattenColumns(columns) ==
    IF columns = <<>> THEN <<>>
    ELSE StatusRows(Head(columns)) \o FlattenColumns(Tail(columns))

get_board_columns == FlattenColumns(boardCfg)

\* d[k] = v
DictPutKeepFirst(d, k, v) ==
    [x \in DOMAIN d \cup {k} |-> IF x \in DOMAIN d THEN d[x] ELSE v]
DictPut(d, k, v) ==
    [x \in DOMAIN d \cup {k} |-> IF x = k THEN v ELSE d[x]]

\* d.get(k)
DictGet(d, k) == IF k \in DOMAIN d THEN d[k] ELSE NULL

\* {c["StatusId"]: c["ColumnName"] for c in cols}
RECURSIVE BuildDict(_, _)
BuildDict(cs, d) ==
    IF cs = <<>> THEN d
    ELSE BuildDict(Tail(cs), DictPut(d, cs[1].StatusId, cs[1].ColumnName))

ConfigRequest(ok) ==
    [path |-> "configuration", startAt |-> 0, maxResults |-> 0,
     ok |-> ok, n |-> 0, total |-> 0]

Outcomes == IF faults THEN BOOLEAN ELSE {TRUE}

----------------------------------------------------------------------------
(* to_dt.                                                                  *)

\* a timestamp value of the issue JSON: absent/null, a string, or a number
TsNone == [t |-> "none", s |-> <<>>]
TsStr(toks) == [t |-> "str", s |-> toks]
TsNum == [t |-> "int", s |-> <<>>]

Dates == {"2026-02-07"}
Times == {"10:22:33", "10:22:33.123"}
ColonOffsets == {"+00:00", "+05:30"}
BasicOffsets == {"+0530"}
\* tokens that are one character long
SingleChars == {"T", " ", "x", "Z"}

NoDatetime == [date |-> NULL, time |-> NULL, offset |-> NULL]

\* s.replace("Z", "+00:00")
ReplaceZ(toks) ==
    [k \in 1..Len(toks) |-> IF toks[k] = "Z" THEN "+00:00" ELSE toks[k]]

\* datetime.fromisoformat: a date, optionally one separator character and a
\* time, optionally an offset; the offset without a colon is accepted by
\* Python 3.11 and later only
fromisoformat(toks) ==
    LET offs == ColonOffsets \cup (IF env["PYTHON"] = <<"3", "11">>
                                   THEN BasicOffsets ELSE {})
    IN
    IF Len(toks) = 1 /\ toks[1] \in Dates
    THEN [ok |-> TRUE,
          value |-> [date |-> toks[1], time |-> "00:00:00", offset |-> NULL]]
    ELSE IF /\ Len(toks) \in {3, 4}
            /\ toks[1] \in Dates
            /\ toks[2] \in SingleChars
            /\ toks[3] \in Times
            /\ Len(toks) = 4 => toks[4] \in offs
    THEN [ok |-> TRUE,
          value |-> [date |-> toks[1], time |-> toks[3],
                     offset |-> IF Len(toks) = 4 THEN toks[4] ELSE NULL]]
    ELSE [ok |-> FALSE, value |-> NoDatetime]

\* the body of the try block: str.replace on a non-string raises too
TryParse(v) ==
    IF v.t # "str" THEN [ok |-> FALSE, value |-> NoDatetime]
    ELSE fromisoformat(ReplaceZ(v.s))

\* `not s`
FalsyTs(v) == v.t = "none" \/ (v.t = "str" /\ v.s = <<>>)

to_dtUncaught(v) ==
    IF FalsyTs(v) THEN [raised |-> FALSE, value |-> NoDatetime]
    ELSE [raised |-> ~TryParse(v).ok, value |-> TryParse(v).value]
to_dt(v) ==
    IF FalsyTs(v) THEN [raised |-> FALSE, value |-> NoDatetime]
    ELSE IF TryParse(v).ok THEN [raised |-> FALSE, value |-> TryParse(v).value]
    ELSE [raised |-> FALSE, value |-> NoDatetime]

ValueErr == [kind |-> "value", name |-> ""]

----------------------------------------------------------------------------
(* upsert_columns and upsert_issues: one MERGE statement per record.       *)

ColumnKeyMatch(t, c) == t.BoardId = c.BoardId /\ t.StatusId = c.StatusId

MergeColumnInsertOnly(table, c) == Append(table, c)
MergeColumn(table, c) ==
    IF \E k \in 1..Len(table) : ColumnKeyMatch(table[k], c)
    THEN [k \in 1..Len(table) |->
            IF ColumnKeyMatch(table[k], c)
            THEN [table[k] EXCEPT !.ColumnName = c.ColumnName,
                                  !.StatusName = c.StatusName]
            ELSE table[k]]
    ELSE Append(table, c)

\* the fields upsert_issues extracts from one issue
IssueRow(it, dict) ==
    LET status_id == IF it.status.t # "none" THEN Str(it.status) ELSE PyNone
    IN [BoardId |-> BOARD_ID, IssueKey |-> it.key, Summary |-> it.summary,
        StatusId |-> status_id, StatusName |-> it.statusName,
        ColumnName |-> DictGet(dict, status_id),
        Assignee |-> it.assignee, DueDate |-> it.duedate,
        Created |-> to_dt(it.created).value,
        Updated |-> to_dt(it.updated).value]

IssueKeyMatch(t, r) == t.BoardId = r.BoardId /\ t.IssueKey = r.IssueKey

MergeIssueInsertOnly(table, r) == Append(table, r)
MergeIssue(table, r) ==
    IF \E k \in 1..Len(table) : IssueKeyMatch(table[k], r)
    THEN [k \in 1..Len(table) |->
            IF IssueKeyMatch(table[k], r) THEN r ELSE table[k]]
    ELSE Append(table, r)

----------------------------------------------------------------------------
(* main.                                                                   *)

\* the program point after statement k - 1 of a phase of the with-block:
\* upsert_columns, then upsert_issues, then conn.commit()
AdvanceCommitEarly(phase, k) ==
    IF phase = "upsertCols" /\ k <= Len(cols) THEN <<"upsertCols", k>>
    ELSE <<"commit", 0>>
RECURSIVE Advance(_, _)
Advance(phase, k) ==
    IF phase = "upsertCols" /\ k <= Len(cols) THEN <<"upsertCols", k>>
    ELSE IF phase = "upsertCols" THEN Advance("upsertIssues", 1)
    ELSE IF k <= Len(issues) THEN <<"upsertIssues", k>>
    ELSE <<"commit", 0>>

\* main's own require_env calls
MainConfigErr ==
    FirstErr(<<require_env("JIRA_BASE_URL", JIRA_BASE_URL),
               require_env("JIRA_EMAIL", JIRA_EMAIL),
               require_env("JIRA_API_TOKEN", JIRA_API_TOKEN),
               require_env("SQL_SERVER", SQL_SERVER)>>)

\* sql_conn's require_env calls, made before pyodbc.connect
SqlConnConfigErr ==
    FirstErr(<<require_env("SQL_SERVER", SQL_SERVER),
               require_env("SQL_DATABASE", SQL_DATABASE)>>
             \o (IF SQL_AUTH = <<"s", "q", "l">>
                 THEN <<require_env("SQL_USERNAME", SQL_USERNAME),
                        require_env("SQL_PASSWORD", SQL_PASSWORD)>>
                 ELSE <<>>))

CheckConfig ==
    /\ pc = "start"
    /\ IF MainConfigErr # NoErr
       THEN Raise(MainConfigErr)
       ELSE /\ pc' = "fetchCols"
            /\ UNCHANGED <<err, tx, db, nCommit>>
    /\ UNCHANGED <<upstream, history, cols, status_to_column, issues,
                   start_at, idx, httpLog, nConnect, nExec>>

GetBoardColumns ==
    /\ pc = "fetchCols"
    /\ \E ok \in Outcomes :
        IF JiraGetConfigErr # NoErr
        THEN /\ Raise(JiraGetConfigErr)
             /\ UNCHANGED <<cols, status_to_column, httpLog>>
        ELSE /\ httpLog' = Append(httpLog, ConfigRequest(ok))
             /\ IF ~ok
                THEN /\ Raise(HttpErr)
                     /\ UNCHANGED <<cols, status_to_column>>
                ELSE /\ cols' = get_board_columns
                     /\ status_to_column' = BuildDict(cols', <<>>)
                     /\ pc' = "fetchIssues"
                     /\ UNCHANGED <<err, tx, db, nCommit>>
    /\ UNCHANGED <<upstream, history, issues, start_at, idx, nConnect, nExec>>

SqlConn ==
    /\ pc = "connect"
    /\ \E ok \in Outcomes :
        IF SqlConnConfigErr # NoErr
        THEN /\ Raise(SqlConnConfigErr)
             /\ UNCHANGED <<idx, nConnect>>
        ELSE /\ nConnect' = nConnect + 1
             /\ IF ~ok
                THEN /\ Raise(ConnectErr)
                     /\ UNCHANGED idx
                ELSE /\ tx' = db
                     /\ pc' = Advance("upsertCols", 1)[1]
                     /\ idx' = Advance("upsertCols", 1)[2]
                     /\ UNCHANGED <<err, db, nCommit>>
    /\ UNCHANGED <<upstream, history, cols, status_to_column, issues,
                   start_at, httpLog, nExec>>

UpsertColumn ==
    /\ pc = "upsertCols"
    /\ \E ok \in Outcomes :
        /\ nExec' = nExec + 1
        /\ IF ~ok
           THEN /\ Raise(ExecuteErr)
                /\ UNCHANGED idx
           ELSE /\ tx' = [tx EXCEPT !.columns = MergeColumn(@, cols[idx])]
                /\ pc' = Advance("upsertCols", idx + 1)[1]
                /\ idx' = Advance("upsertCols", idx + 1)[2]
                /\ UNCHANGED <<err, db, nCommit>>
    /\ UNCHANGED <<upstream, history, cols, status_to_column, issues,
                   start_at, httpLog, nConnect>>

UpsertIssue ==
    /\ pc = "upsertIssues"
    /\ \E ok \in Outcomes :
        LET it == issues[idx] IN
        IF to_dt(it.created).raised \/ to_dt(it.updated).raised
        THEN /\ Raise(ValueErr)
             /\ UNCHANGED <<idx, nExec>>
        ELSE /\ nExec' = nExec + 1
             /\ IF ~ok
                THEN /\ Raise(ExecuteErr)
                     /\ UNCHANGED idx
                ELSE /\ tx' = [tx EXCEPT !.issues =
                                 MergeIssue(@, IssueRow(it, status_to_column))]
                     /\ pc' = Advance("upsertIssues", idx + 1)[1]
                     /\ idx' = Advance("upsertIssues", idx + 1)[2]
                     /\ UNCHANGED <<err, db, nCommit>>
    /\ UNCHANGED <<upstream, history, cols, status_to_column, issues,
                   start_at, httpLog, nConnect>>

Commit ==
    /\ pc = "commit"
    /\ \E ok \in Outcomes :
        /\ nCommit' = nCommit + 1
        /\ tx' = EmptyTables
        /\ db' = IF ok THEN tx ELSE db
        /\ pc' = IF ok THEN "done" ELSE "failed"
        /\ err' = IF ok THEN err ELSE CommitErr
    /\ UNCHANGED <<upstream, history, cols, status_to_column, issues,
                   start_at, idx, httpLog, nConnect, nExec>>

----------------------------------------------------------------------------
(* get_board_issues on its own, against every kind of source.              *)

FetchSources ==
    {[kind |-> "consistent", cap |-> c] : c \in {1, 7, max_results}}
        \cup {[kind |-> "inconsistent", cap |-> 0]}

InitFetch ==
    /\ env = ValidEnv
    /\ faults \in BOOLEAN
    /\ boardCfg = <<>>
    /\ srcMode \in FetchSources
    /\ \E n \in 0..(IF srcMode.kind = "consistent" THEN MaxIssues ELSE AdvIssues) :
          srcIssues = [k \in 1..n |-> Issue(k)]
    /\ pc = "fetchIssues"
    /\ RunReset
    /\ db = EmptyTables
    /\ runs = 1
    /\ changed = FALSE
    /\ dbStart = EmptyTables

NextFetch == FetchPage

SpecFetch == InitFetch /\ [][NextFetch]_vars /\ WF_vars(NextFetch)

----------------------------------------------------------------------------
(* Upstream data and environments the runs are checked against.            *)

Status(id, name) == [id |-> id, name |-> name]
Column(name, statuses) == [name |-> name, statuses |-> statuses]

ColName(k) == CASE k = 1 -> "To Do" [] k = 2 -> "Done" [] OTHER -> "Other"

CfgToDoDone ==
    <<Column("To Do", <<Status(JInt(1), "Open")>>),
      Column("Done", <<Status(JInt(3), "Closed")>>)>>

\* status 3 listed under both columns, once as a number and once as a string
CfgSplitStatus ==
    <<Column("To Do", <<Status(JInt(1), "Open"), Status(JInt(3), "Closed")>>),
      Column("Done", <<Status(JStr(<<"3">>), "Shut")>>)>>

CfgEmptyColumn ==
    <<Column("To Do", <<>>),
      Column(NULL, <<Status(JStr(<<"3">>), "Closed"), Status(JNull, NULL)>>)>>

SyncCfgs == <<CfgToDoDone, CfgSplitStatus, CfgEmptyColumn, <<>>>>

IsoZ == TsStr(<<"2026-02-07", "T", "10:22:33.123", "Z">>)
IsoColon == TsStr(<<"2026-02-07", "T", "10:22:33", "+05:30">>)
IsoBasic == TsStr(<<"2026-02-07", "T", "10:22:33.123", "+0530">>)
Garbage == TsStr(<<"x", "10:22:33">>)
ZSeparated == TsStr(<<"2026-02-07", "Z", "10:22:33">>)

\* the issues a board may hold under key k
IssueCombos(k) ==
    <<[key |-> k, summary |-> "fix", status |-> JInt(1), statusName |-> "Open",
       assignee |-> "Ann", duedate |-> "2026-03-01",
       created |-> IsoZ, updated |-> IsoColon],
      [key |-> k, summary |-> "ship", status |-> JStr(<<"3">>),
       statusName |-> "Closed", assignee |-> NULL, duedate |-> NULL,
       created |-> Garbage, updated |-> TsStr(<<>>)],
      [key |-> k, summary |-> "odd", status |-> JInt(99), statusName |-> "Odd",
       assignee |-> "Bob", duedate |-> NULL,
       created |-> TsNone, updated |-> IsoBasic],
      [key |-> k, summary |-> NULL, status |-> JNull, statusName |-> NULL,
       assignee |-> NULL, duedate |-> "2026-03-02",
       created |-> TsNum, updated |-> ZSeparated]>>

Range(f) == {f[x] : x \in DOMAIN f}

IssueLists(n) ==
    UNION {{[k \in 1..m |-> IssueCombos(k)[f[k]]]
            : f \in [1..m -> DOMAIN IssueCombos(1)]} : m \in 0..n}

\* tables left behind by earlier runs against other upstream data
StaleTables ==
    [columns |->
        <<[BoardId |-> BOARD_ID, ColumnName |-> "Review",
           StatusId |-> <<"7">>, StatusName |-> "Stale"],
          [BoardId |-> BOARD_ID, ColumnName |-> "Old",
           StatusId |-> <<"3">>, StatusName |-> "Was"]>>,
     issues |->
        <<[BoardId |-> BOARD_ID, IssueKey |-> 9, Summary |-> "gone",
           StatusId |-> <<"7">>, StatusName |-> "Stale",
           ColumnName |-> "Review", Assignee |-> NULL, DueDate |-> NULL,
           Created |-> NoDatetime, Updated |-> NoDatetime],
          [BoardId |-> BOARD_ID, IssueKey |-> 1, Summary |-> "before",
           StatusId |-> <<"3">>, StatusName |-> "Was",
           ColumnName |-> "Old", Assignee |-> "Cy", DueDate |-> NULL,
           Created |-> NoDatetime, Updated |-> NoDatetime]>>]

Envs ==
    {[JIRA_BASE_URL |-> b, JIRA_EMAIL |-> e, JIRA_API_TOKEN |-> t,
      SQL_SERVER |-> s, SQL_DATABASE |-> d, SQL_AUTH |-> a,
      SQL_USERNAME |-> u, SQL_PASSWORD |-> p, PYTHON |-> <<"3", "11">>]
     : b \in {PyNone, <<"/">>, <<"h", "/">>},
       e \in {PyNone, <<>>, <<"e">>},
       t \in {PyNone, <<"t">>},
       s \in {PyNone, <<"s">>},
       d \in {PyNone, <<>>, <<"d">>},
       a \in {PyNone, <<"S", "Q", "L">>},
       u \in {PyNone, <<"u">>},
       p \in {PyNone, <<"p">>}}

StartOfRun ==
    /\ pc = "start"
    /\ RunReset
    /\ dbStart = db

----------------------------------------------------------------------------
(* One run of main under every configuration, with requests and            *)
(* statements that may fail.                                               *)

Init ==
    /\ env \in Envs
    /\ faults = TRUE
    /\ boardCfg \in {<<>>, CfgToDoDone}
    /\ srcIssues \in IssueLists(1)
    /\ srcMode \in {[kind |-> "consistent", cap |-> max_results]}
    /\ db \in {EmptyTables, StaleTables}
    /\ StartOfRun
    /\ runs = 1
    /\ changed = FALSE

Next ==
    \/ CheckConfig
    \/ GetBoardColumns
    \/ FetchPage
    \/ SqlConn
    \/ UpsertColumn
    \/ UpsertIssue
    \/ Commit

Spec == Init /\ [][Next]_vars

----------------------------------------------------------------------------
(* get_board_columns against every small board configuration.              *)

MaxCols == 2
MaxStatuses == 2

StatusPool ==
    {Status(JInt(1), "Open"), Status(JInt(3), "Closed"), Status(JNull, NULL)}

StatusLists == UNION {[1..m -> StatusPool] : m \in 0..MaxStatuses}

\* the configuration whose k-th column lists the statuses lists[k]
BoardCfg(lists) == [k \in 1..Len(lists) |-> Column(ColName(k), lists[k])]

InitCols ==
    /\ env = ValidEnv
    /\ faults = FALSE
    /\ \E m \in 0..MaxCols :
          \E lists \in [1..m -> StatusLists] : boardCfg = BoardCfg(lists)
    /\ srcIssues = <<>>
    /\ srcMode = [kind |-> "consistent", cap |-> max_results]
    /\ db = EmptyTables
    /\ StartOfRun
    /\ runs = 1
    /\ changed = FALSE

NextCols == CheckConfig \/ GetBoardColumns

SpecCols == InitCols /\ [][NextCols]_vars

----------------------------------------------------------------------------
(* Consecutive runs of main, the upstream data changing or not in between. *)

InitSync ==
    /\ env \in {[ValidEnv EXCEPT !["PYTHON"] = v]
                : v \in {<<"3", "10">>, <<"3", "11">>}}
    /\ faults = FALSE
    /\ boardCfg \in Range(SyncCfgs)
    /\ srcIssues \in IssueLists(SyncIssues)
    /\ srcMode \in {[kind |-> "consistent", cap |-> c] : c \in {1, max_results}}
    /\ db \in {EmptyTables, StaleTables}
    /\ StartOfRun
    /\ runs = 1
    /\ changed = FALSE

NextInPool(pool, x) ==
    LET k == CHOOSE j \in DOMAIN pool : pool[j] = x
    IN pool[(k % Len(pool)) + 1]

\* the upstream data after an edit of the board or of its issues
Edited(what) ==
    IF what = "board"
    THEN <<NextInPool(SyncCfgs, boardCfg), srcIssues>>
    ELSE <<boardCfg,
           [k \in 1..Len(srcIssues) |->
               NextInPool(IssueCombos(srcIssues[k].key), srcIssues[k])]>>

RestartLocals ==
    /\ pc' = "start"
    /\ err' = NoErr
    /\ cols' = <<>>
    /\ status_to_column' = <<>>
    /\ issues' = <<>>
    /\ start_at' = 0
    /\ idx' = 0
    /\ tx' = EmptyTables
    /\ httpLog' = <<>>
    /\ nConnect' = 0
    /\ nExec' = 0
    /\ nCommit' = 0
    /\ runs' = runs + 1
    /\ dbStart' = db
    /\ UNCHANGED <<env, faults, srcMode, db>>

\* the job is run again against the same upstream data
RunAgain ==
    /\ pc \in {"done", "failed"}
    /\ runs < MaxRuns
    /\ RestartLocals
    /\ changed' = FALSE
    /\ UNCHANGED <<boardCfg, srcIssues>>

\* the job is run again after the board or its issues were edited
RunAgainAfterEdit ==
    /\ pc \in {"done", "failed"}
    /\ runs < MaxRuns
    /\ RestartLocals
    /\ changed' = TRUE
    /\ \E what \in {"board", "issues"} :
          /\ boardCfg' = Edited(what)[1]
          /\ srcIssues' = Edited(what)[2]

NextSync == Next \/ RunAgain \/ RunAgainAfterEdit

SpecSync == InitSync /\ [][NextSync]_vars

----------------------------------------------------------------------------
(* Properties of get_board_issues.                                         *)

FetchReturned == pc = "connect"
LastRequest == httpLog[Len(httpLog)]
RequestOffsets == [k \in 1..Len(httpLog) |-> httpLog[k].startAt]
ConsistentSource == srcMode.kind = "consistent"

\* the scenario of C1: a board of 120 issues served 50 a page
Scenario120 ==
    (ConsistentSource /\ srcMode.cap = 50 /\ Len(srcIssues) = 120)
        => (RequestOffsets = <<0, 50, 100>> /\ Len(issues) = 120)

\* C1 as stated: whenever a fetch returns without a failed request, the
\* number of issues accumulated equals the total the source reported; and a
\* board of 120 issues served 50 a page takes requests at 0, 50 and 100.
C1_CountEqualsReportedTotal ==
    FetchReturned =>
        (Len(issues) = LastRequest.total /\ Scenario120)

\* C1 amended: against a consistent source the fetch returns exactly the
\* board's issues, as many as the reported total; against any source, a
\* fetch that did not end on an empty page holds at least the total last
\* reported; and the 120-issue scenario is as stated.
C1_CountEqualsTotalOfConsistentSource ==
    FetchReturned =>
        /\ ConsistentSource =>
              (issues = srcIssues /\ Len(issues) = LastRequest.total)
        /\ LastRequest.n # 0 => Len(issues) >= LastRequest.total
        /\ Len(issues) = start_at
        /\ Scenario120

C1_Witness ==
    /\ FetchReturned
    /\ ConsistentSource /\ srcMode.cap = 50 /\ Len(srcIssues) = 120
    /\ Len(issues) = 120
    /\ Len(httpLog) = 3

\* a page that leaves the accumulated offset below the reported total
ShortPage(r) == r.ok /\ r.startAt + r.n < r.total
EmptyPage(r) == r.ok /\ r.n = 0
ReachesTotal(r) == r.ok /\ r.n > 0 /\ r.startAt + r.n >= r.total

\* C7 as stated: after a page that returns fewer issues than are needed to
\* reach the reported total, or no issue, no further request is sent.
C7_StopsAfterShortPage ==
    \A k \in 1..Len(httpLog) :
        (ShortPage(httpLog[k]) \/ EmptyPage(httpLog[k])) => k = Len(httpLog)

\* C7 amended: no further request is sent after a page that returns no issue
\* or that brings the accumulated offset to the reported total or beyond; a
\* non-empty page that leaves the offset below the total is followed by a
\* request at the offset advanced by that page's length.
C7_StopsAfterEmptyOrFinalPage ==
    \A k \in 1..Len(httpLog) :
        LET r == httpLog[k] IN
        /\ (EmptyPage(r) \/ ReachesTotal(r)) =>
              (k = Len(httpLog) /\ FetchReturned)
        /\ (ShortPage(r) /\ r.n > 0) =>
              IF k = Len(httpLog) THEN pc = "fetchIssues"
              ELSE httpLog[k + 1].startAt = r.startAt + r.n

C7_Witness ==
    /\ FetchReturned
    /\ Len(httpLog) >= 2
    /\ ShortPage(httpLog[1]) /\ httpLog[1].n > 0
    /\ EmptyPage(LastRequest)

\* one iteration either leaves the loop or moves the offset forward by the
\* number of issues the page held
LoopStep ==
    pc = "fetchIssues" =>
        \/ pc' # "fetchIssues"
        \/ /\ start_at' > start_at
           /\ start_at' = start_at + httpLog'[Len(httpLog')].n
           /\ start_at < httpLog'[Len(httpLog')].total

\* C10: every iteration of the pagination loop stops or strictly increases
\* the next request offset by the number of issues returned, and the loop
\* is eventually left, whatever the pages hold and whether or not the
\* source honours the requested offset.
C10_LoopTerminates == [][LoopStep]_vars /\ <>(pc # "fetchIssues")

\* the loop has ended against a source that served the same issue twice
C10_Witness ==
    /\ FetchReturned
    /\ ~ConsistentSource
    /\ Len(httpLog) >= 2
    /\ \E k \in 1..(Len(issues) - 1) : issues[k].key >= issues[k + 1].key

----------------------------------------------------------------------------
(* Properties of get_board_columns.                                        *)

\* the number of statuses listed by the columns before column c
RECURSIVE StatusesBefore(_)
StatusesBefore(c) ==
    IF c <= 1 THEN 0
    ELSE StatusesBefore(c - 1) + Len(boardCfg[c - 1].statuses)

ColumnsFetched == pc = "fetchIssues"

\* C8: get_board_columns yields one record per (column, status) pair, in
\* configuration order, so as many records as the columns list statuses;
\* To Do=[1], Done=[3] yields exactly (To Do, 1) and (Done, 3).
C8_OneRecordPerColumnStatusPair ==
    ColumnsFetched =>
        /\ Len(cols) = StatusesBefore(Len(boardCfg) + 1)
        /\ \A c \in 1..Len(boardCfg) :
             \A k \in 1..Len(boardCfg[c].statuses) :
                cols[StatusesBefore(c) + k] =
                    [BoardId |-> BOARD_ID,
                     ColumnName |-> boardCfg[c].name,
                     StatusId |-> Str(boardCfg[c].statuses[k].id),
                     StatusName |-> boardCfg[c].statuses[k].name]
        /\ boardCfg = CfgToDoDone =>
             cols = <<[BoardId |-> BOARD_ID, ColumnName |-> "To Do",
                       StatusId |-> <<"1">>, StatusName |-> "Open"],
                      [BoardId |-> BOARD_ID, ColumnName |-> "Done",
                       StatusId |-> <<"3">>, StatusName |-> "Closed"]>>

C8_Witness ==
    /\ ColumnsFetched
    /\ Len(boardCfg) = 2
    /\ Len(boardCfg[1].statuses) = 0
    /\ Len(boardCfg[2].statuses) = 2
    /\ Len(cols) = 2

----------------------------------------------------------------------------
(* Properties of one run of main.                                          *)

\* C5: a run that fails on a configuration check or an HTTP request has
\* executed no upsert statement and issued no commit; a run that fails on a
\* statement has issued no commit; and a commit is issued only once every
\* column and issue statement has been executed without error.
C5_CommitOnlyAfterBothPhases ==
    /\ err.kind \in {"config", "http"} => (nExec = 0 /\ nCommit = 0)
    /\ err \in {ConnectErr, ExecuteErr} => nCommit = 0
    /\ pc = "failed" => (err # NoErr /\ db = dbStart)
    /\ pc = "commit" => (nExec = Len(cols) + Len(issues) /\ nCommit = 0)
    /\ nCommit > 0 =>
         /\ nCommit = 1
         /\ nExec = Len(cols) + Len(issues)
         /\ err \in {NoErr, CommitErr}
         /\ pc = (IF err = NoErr THEN "done" ELSE "failed")
    /\ pc # "done" => db = dbStart

\* a statement failed after others had been executed in the transaction
C5_Witness ==
    /\ pc = "failed"
    /\ err = ExecuteErr
    /\ nExec >= 3
    /\ nCommit = 0
    /\ dbStart = StaleTables

\* the value of each setting the run requires
Required ==
    [JIRA_BASE_URL |-> JIRA_BASE_URL, JIRA_EMAIL |-> JIRA_EMAIL,
     JIRA_API_TOKEN |-> JIRA_API_TOKEN, SQL_SERVER |-> SQL_SERVER,
     SQL_DATABASE |-> SQL_DATABASE, SQL_USERNAME |-> SQL_USERNAME,
     SQL_PASSWORD |-> SQL_PASSWORD]

\* C6: a run that fails for a missing setting names a setting that is
\* absent or empty, and fails before any HTTP request is sent and before
\* any database connection is opened.
C6_MissingConfigBeforeAnyActivity ==
    err.kind = "config" =>
        /\ Falsy(Required[err.name])
        /\ httpLog = <<>>
        /\ nConnect = 0

----------------------------------------------------------------------------
(* Properties of consecutive runs.                                         *)

Rows(table) == {table[k] : k \in 1..Len(table)}

\* C2: a run against the upstream data the previous run saw leaves both
\* tables as that previous run left them.
C2_SecondRunChangesNothing ==
    (pc = "done" /\ runs >= 2 /\ ~changed) => db = dbStart

C2_Witness ==
    /\ pc = "done"
    /\ runs = 2
    /\ ~changed
    /\ Len(db.columns) >= 3
    /\ Len(db.issues) >= 3
    /\ Len(httpLog) >= 3

UniqueKeys(t) ==
    /\ \A i, j \in 1..Len(t.columns) :
          i # j => ~ColumnKeyMatch(t.columns[i], t.columns[j])
    /\ \A i, j \in 1..Len(t.issues) :
          i # j => ~IssueKeyMatch(t.issues[i], t.issues[j])

\* what one MERGE of record r does to a table: the row of r's key, if there
\* is one, carries r's values where it stood, every other row is as it was,
\* and exactly one row has r's key afterwards
KeyMatch(kind, t, r) ==
    IF kind = "column" THEN ColumnKeyMatch(t, r) ELSE IssueKeyMatch(t, r)

UpsertedInPlace(old, new, r, kind) ==
    /\ Cardinality({k \in 1..Len(new) : KeyMatch(kind, new[k], r)}) = 1
    /\ \A k \in 1..Len(old) :
          new[k] = IF KeyMatch(kind, old[k], r) THEN r ELSE old[k]
    /\ Len(new) = Len(old)
                    + (IF \E k \in 1..Len(old) : KeyMatch(kind, old[k], r) THEN 0 ELSE 1)
    /\ \E k \in 1..Len(new) : new[k] = r

ColumnStatement ==
    (pc = "upsertCols" /\ nExec' = nExec + 1) =>
        /\ UpsertedInPlace(tx.columns, tx'.columns, cols[idx], "column")
        /\ tx'.issues = tx.issues

IssueStatement ==
    (pc = "upsertIssues" /\ nExec' = nExec + 1) =>
        /\ UpsertedInPlace(tx.issues, tx'.issues,
                           IssueRow(issues[idx], status_to_column), "issue")
        /\ tx'.columns = tx.columns

\* C3: each table holds at most one row per key at all times, and every
\* upsert statement updates the row of its key in place to the new values,
\* or inserts it when there is none, leaving the other rows as they were.
C3_UpsertUpdatesExactlyOneRow ==
    /\ [](UniqueKeys(db) /\ UniqueKeys(tx))
    /\ [][ColumnStatement /\ IssueStatement]_vars

\* a later run has rewritten existing rows with changed values
C3_Witness ==
    /\ pc = "done"
    /\ runs >= 2
    /\ changed
    /\ Len(db.issues) = Len(dbStart.issues)
    /\ Len(db.columns) = Len(dbStart.columns)
    /\ Len(db.issues) >= 3
    /\ \A k \in 1..Len(db.issues) :
          db.issues[k].IssueKey = dbStart.issues[k].IssueKey
    /\ \E k \in 1..Len(db.issues) : db.issues[k] # dbStart.issues[k]
    /\ \E k \in 1..Len(db.issues) : db.issues[k] = dbStart.issues[k]

\* the tables this run's statements have written to
Written == IF pc = "done" THEN db ELSE tx

\* the keys of the issues this run has upserted so far
WrittenKeys ==
    CASE pc = "upsertIssues" -> {issues[k].key : k \in 1..(idx - 1)}
      [] pc \in {"commit", "done"} -> {issues[k].key : k \in 1..Len(issues)}
      [] OTHER -> {}

MappingRows(r) ==
    {c \in Rows(Written.columns) :
        c.BoardId = r.BoardId /\ c.StatusId = r.StatusId}

\* C4: the column name of every issue row a run writes is null or that of
\* the column-table row of the same board and status as the run's column
\* upsert left it; it is that row's column name whenever the configuration
\* lists the status, also under several columns, and null when it lists
\* the status under none.
C4_IssueColumnMatchesMapping ==
    \A r \in Rows(Written.issues) :
        r.IssueKey \in WrittenKeys =>
            /\ \/ r.ColumnName = NULL
               \/ \E c \in MappingRows(r) : c.ColumnName = r.ColumnName
            /\ IF \E c \in Rows(cols) : c.StatusId = r.StatusId
               THEN /\ MappingRows(r) # {}
                    /\ \A c \in MappingRows(r) : c.ColumnName = r.ColumnName
               ELSE r.ColumnName = NULL

\* status 3 is listed under both columns; a stale mapping row exists for a
\* status the configuration no longer lists
C4_Witness ==
    /\ pc = "done"
    /\ boardCfg = CfgSplitStatus
    /\ \E r \in Rows(db.issues) :
          r.IssueKey \in WrittenKeys /\ r.StatusId = <<"3">>
            /\ r.ColumnName = "Done"
    /\ \E r \in Rows(db.issues) :
          r.IssueKey \in WrittenKeys /\ r.StatusId = <<"9", "9">>
            /\ r.ColumnName = NULL

\* a created/updated value that is absent, empty or does not parse
BadTimestamp(v) == FalsyTs(v) \/ ~TryParse(v).ok

\* the row of issue `it` holds its fields, a bad timestamp stored as null
StoredLeniently(r, it) ==
    /\ r.Summary = it.summary
    /\ r.StatusId = (IF it.status.t = "none" THEN PyNone ELSE Str(it.status))
    /\ r.StatusName = it.statusName
    /\ r.Assignee = it.assignee
    /\ r.DueDate = it.duedate
    /\ BadTimestamp(it.created) => r.Created = NoDatetime
    /\ BadTimestamp(it.updated) => r.Updated = NoDatetime
    /\ ~BadTimestamp(it.created) => r.Created # NoDatetime
    /\ ~BadTimestamp(it.updated) => r.Updated # NoDatetime

HasBadTimestamp ==
    \E k \in 1..Len(issues) :
        BadTimestamp(issues[k].created) \/ BadTimestamp(issues[k].updated)

LenientRun ==
    /\ pc # "failed"
    /\ \A k \in 1..Len(srcIssues) :
          \A v \in {srcIssues[k].created, srcIssues[k].updated} :
              BadTimestamp(v) => to_dt(v) = [raised |-> FALSE,
                                             value |-> NoDatetime]
    /\ \A k \in 1..Len(issues) :
          issues[k].key \in WrittenKeys =>
              \E r \in Rows(Written.issues) :
                  /\ r.IssueKey = issues[k].key
                  /\ StoredLeniently(r, issues[k])

\* C9: to_dt turns an absent, empty or malformed timestamp into null
\* without raising; the issue is upserted with that field null and its
\* other fields intact; and the run goes on to upsert the remaining issues
\* and commits.
C9_BadTimestampsStoredAsNull ==
    /\ LenientRun
    /\ pc = "upsertIssues" => ENABLED UpsertIssue
    /\ pc = "commit" => (WrittenKeys = {it.key : it \in Rows(issues)}
                           /\ ENABLED Commit)
    /\ pc = "done" => nCommit = 1

\* a malformed created value on the first of two issues, both committed
C9_Witness ==
    /\ pc = "done"
    /\ Len(issues) = 2
    /\ issues[1].created = Garbage
    /\ \E r \in Rows(db.issues) :
          r.IssueKey = 1 /\ r.Created = NoDatetime /\ r.Summary = "ship"
    /\ \E r \in Rows(db.issues) :
          r.IssueKey = 2 /\ r.Created # NoDatetime

====
